---- MODULE Spec2Model ----
(***************************************************************************)
(* The time-boxed credential flows of prozlab_backend: phone OTPs          *)
(* (SMSService, OTPService), e-mail verification tokens (EmailService),    *)
(* password-reset tokens (PasswordResetService) and password-reset OTPs    *)
(* (OTPService over PasswordResetOTPRepository).                           *)
(*                                                                         *)
(* Time.  Every duration in the code is a multiple of OTP_EXPIRE_MINUTES   *)
(* (5 min, 10 min, 3600 s, 1 h, 24 h), so the clock counts ticks of        *)
(* OTP_EXPIRE_MINUTES minutes.  Comparisons with the clock are the code's  *)
(* (strict or not).                                                        *)
(*                                                                         *)
(* Stores.  A Python dict, a Redis keyspace and a table are functions      *)
(* whose DOMAIN is the set of keys (rows) present.  The key-value stores   *)
(* have the Redis semantics (an entry is gone once its TTL has run out);   *)
(* the in-memory fallback checks the same deadline on every read.          *)
(*                                                                         *)
(* Services.  The five flows share no state: each keeps its own keys or    *)
(* its own table.  A behaviour calls the endpoints of one service, chosen  *)
(* in the initial state (variable service).                                *)
(***************************************************************************)
EXTENDS Integers, Sequences, FiniteSets, TLC

VARIABLES
    service,                  \* the service whose endpoints the behaviour calls
    clock,                    \* datetime.utcnow(), in ticks
    otp_storage,              \* sms_service.otp_storage / Redis "otp:<phone>"
    sms_rate_limit_storage,   \* sms_service.rate_limit_storage / "otp_rate_limit:<phone>"
    email_storage,            \* email_service.email_storage / "email_verification:<token>"
    email_rate_limit_storage, \* email_service.rate_limit_storage / "email_rate_limit:<email>"
    self_otp_storage,         \* OTPService.otp_storage (a dict of the instance)
    users,                    \* table users
    password_reset_tokens,    \* table password_reset_tokens, by token
    otp_verifications,        \* table otp_verifications (purpose password_reset), by row id
    budget,                   \* credentials the behaviour may still issue
    nextCred,                 \* history: number of the next credential issued
    failed,                   \* history: subject -> failed verify calls since the latest
                              \*          issuance or success
    wins,                     \* history: credential -> verify calls that succeeded on it
    compared,                 \* history: credential -> code comparisons performed against it
    window,                   \* history: subject -> the fixed rate-limit window of the spec
    calls,                    \* worker -> the call it is serving, between its read and its write
    last                      \* the latest call that returned, and what it returned

smsVars == << otp_storage, sms_rate_limit_storage >>
emailVars == << email_storage, email_rate_limit_storage >>
dbVars == << users, password_reset_tokens, otp_verifications >>
vars == << service, clock, otp_storage, sms_rate_limit_storage, email_storage,
           email_rate_limit_storage, self_otp_storage, users, password_reset_tokens,
           otp_verifications, budget, nextCred, failed, wins, compared, window, calls,
           last >>

----------------------------------------------------------------------------
(* Bounds of the model *)

NearClock == 1      \* calls are made up to this many ticks after an instant of interest
MaxIssue == 2       \* credentials issued in a behaviour of Spec
MaxWindowIssue == 4 \* credentials issued in a behaviour of SpecIssue
MaxFailed == 3      \* failed verify calls are counted per subject up to this number
MaxWins == 2        \* successful verify calls are counted per credential up to this number
MaxCompared == 4    \* code comparisons are counted per credential up to this number
MaxWorkers == 2     \* workers serving calls at the same time in SpecConc
MaxConcIssue == 2   \* credentials issued in a behaviour of SpecConc
MaxSweepIssue == 3  \* credentials issued in a behaviour of SpecSweep

(* Program constants *)

OTP_EXPIRE_MINUTES == 5
MAX_OTP_ATTEMPTS == 3
RATE_LIMIT_MAX == 3
RATE_LIMIT_EXPIRE_SECONDS == 3600
DEFAULT_EXPIRE_SECONDS == 3600
EMAIL_TOKEN_EXPIRE_HOURS == 24
EMAIL_VERIFIED_KEEP_SECONDS == 3600
SELF_OTP_EXPIRE_MINUTES == 5
SELF_OTP_MAX_ATTEMPTS == 3
RESET_TOKEN_EXPIRE_HOURS == 1
RESET_OTP_EXPIRE_MINUTES == 10
RESET_OTP_MAX_ATTEMPTS == 3

SecondsToTicks(s) == s \div (60 * OTP_EXPIRE_MINUTES)
MinutesToTicks(m) == m \div OTP_EXPIRE_MINUTES
HoursToTicks(h) == (60 * h) \div OTP_EXPIRE_MINUTES

Services == {"sms", "email", "otp", "reset", "reset_otp"}
Phones == {"p1"}
Emails == {"e1"}
\* "e0" is the address of no account, "e2" that of an inactive account
Subjects == Phones \cup Emails \cup {"e0", "e2"}
Users == {"u1", "u2"}
Codes == {1, 2}                    \* generate_otp(), random.randint: the codes drawn
Purposes == {"phone_verification", "login"}
Passwords == {"pwA", "pwB"}
Creds == 1..(MaxIssue + MaxWindowIssue)
Workers == 1..MaxWorkers

Min(a, b) == IF a < b THEN a ELSE b

\* The instants at which calls are made: the start of the behaviour and the
\* end of each lifetime counted from it, and up to NearClock ticks after
\* each of them.
Around(ds) == {d + k : d \in ds \cup {0}, k \in 0..NearClock}

\* the lifetimes of the credentials of a service
Lifetimes(svc) ==
    CASE svc = "sms" -> {MinutesToTicks(OTP_EXPIRE_MINUTES)}
      [] svc = "otp" -> {MinutesToTicks(SELF_OTP_EXPIRE_MINUTES)}
      [] svc = "email" -> {SecondsToTicks(EMAIL_VERIFIED_KEEP_SECONDS),
                           HoursToTicks(EMAIL_TOKEN_EXPIRE_HOURS)}
      [] svc = "reset" -> {HoursToTicks(RESET_TOKEN_EXPIRE_HOURS)}
      [] svc = "reset_otp" -> {MinutesToTicks(RESET_OTP_EXPIRE_MINUTES)}

----------------------------------------------------------------------------
(* The key-value store helpers of SMSService and EmailService (the two     *)
(* classes carry the same code).                                           *)

Put(storage, key, value) ==
    [k \in DOMAIN storage \cup {key} |-> IF k = key THEN value ELSE storage[k]]

\* _store_data: setex(key, expire_seconds or 3600, data)
StoreData(storage, key, data, expire, now) ==
    Put(storage, key,
        [data |-> data,
         expires_at |-> now + (IF expire = 0 THEN SecondsToTicks(DEFAULT_EXPIRE_SECONDS)
                                             ELSE expire)])

\* _get_data: the entry is returned while now < its deadline
HasData(storage, key, now) ==
    key \in DOMAIN storage /\ now < storage[key].expires_at

GetData(storage, key) == storage[key].data

\* _delete_data
DeleteData(storage, key) ==
    [k \in DOMAIN storage \ {key} |-> storage[k]]

\* Redis expiry: the entries whose TTL has run out at `now` are gone
Evict(storage, now) ==
    [k \in {x \in DOMAIN storage : now < storage[x].expires_at} |-> storage[k]]

\* _check_rate_limit letting the count reach the maximum
CheckRateLimitLoose(storage, key, now) ==
    IF ~HasData(storage, key, now) THEN TRUE
    ELSE GetData(storage, key).count <= RATE_LIMIT_MAX

\* _check_rate_limit
CheckRateLimit(storage, key, now) ==
    IF ~HasData(storage, key, now) THEN TRUE
    ELSE GetData(storage, key).count < RATE_LIMIT_MAX

\* _increment_rate_limit
IncrementRateLimit(storage, key, now) ==
    LET current == IF HasData(storage, key, now) THEN GetData(storage, key)
                                                 ELSE [count |-> 0]
    IN  StoreData(storage, key, [count |-> current.count + 1],
                  SecondsToTicks(RATE_LIMIT_EXPIRE_SECONDS), now)

----------------------------------------------------------------------------
(* History bookkeeping.  None of it is read by the program's actions.      *)

\* the fixed window of the spec: it starts at the first issuance that
\* succeeds outside a window and lasts window_duration (one hour)
WindowDuration == SecondsToTicks(RATE_LIMIT_EXPIRE_SECONDS)
WindowLive(w, now) == w.issued > 0 /\ now < w.start + WindowDuration
WindowFull(w, now) == WindowLive(w, now) /\ w.issued >= RATE_LIMIT_MAX
\* the window had its three issuances and its boundary has passed
WindowRolled(w, now) == w.issued >= RATE_LIMIT_MAX /\ now >= w.start + WindowDuration
RecordIssuance(w, now) ==
    IF WindowLive(w, now) THEN [w EXCEPT !.issued = @ + 1]
                          ELSE [start |-> now, issued |-> 1]

\* what is known of the subject when a call starts
Pre(s) ==
    (IF WindowFull(window[s], clock) THEN {"full"} ELSE {}) \cup
    (IF WindowRolled(window[s], clock) THEN {"rolled"} ELSE {}) \cup
    (IF failed[s] >= MAX_OTP_ATTEMPTS THEN {"exhausted"} ELSE {})

Returned(op, code, res, pre) == [op |-> op, code |-> code, res |-> res, pre |-> pre]

\* failed verify calls since the latest issuance or success, counted up to
\* MaxFailed
CountFailed(f, x) == [f EXCEPT ![x] = Min(@ + 1, MaxFailed)]
CountVerify(f, x, res) == IF res = "SUCCESS" THEN [f EXCEPT ![x] = 0] ELSE CountFailed(f, x)

\* successful verify calls on a credential, counted up to MaxWins
Bump(f, x) == [f EXCEPT ![x] = Min(@ + 1, MaxWins)]

\* code comparisons against a credential, counted up to MaxCompared
CountCompared(f, x) == [f EXCEPT ![x] = Min(@ + 1, MaxCompared)]

\* a worker that serves no call
Idle == [pc |-> "idle"]

InitStores ==
    /\ clock = 0
    /\ otp_storage = << >>
    /\ sms_rate_limit_storage = << >>
    /\ email_storage = << >>
    /\ email_rate_limit_storage = << >>
    /\ self_otp_storage = << >>
    /\ users = [u \in Users |->
                    [email |-> IF u = "u1" THEN "e1" ELSE "e2",
                     hashed_password |-> << "hash", "pw0" >>,
                     is_active |-> (u = "u1")]]
    /\ password_reset_tokens = << >>
    /\ otp_verifications = << >>
    /\ nextCred = 1
    /\ failed = [s \in Subjects |-> 0]
    /\ wins = [c \in Creds |-> 0]
    /\ compared = [c \in Creds |-> 0]
    /\ window = [s \in Subjects |-> [start |-> 0, issued |-> 0]]
    /\ calls = [w \in Workers |-> Idle]
    /\ last = Returned("none", 0, "none", {})

Init ==
    /\ service \in Services
    /\ budget = MaxIssue
    /\ InitStores

----------------------------------------------------------------------------
(* The clock *)

\* the clock moves on to the next of the instants
Advance(instants) ==
    /\ \E t \in instants : t > clock
    /\ LET now == CHOOSE t \in instants :
                       t > clock /\ \A u \in instants : u > clock => t <= u
       IN  /\ clock' = now
           /\ otp_storage' = Evict(otp_storage, now)
           /\ sms_rate_limit_storage' = Evict(sms_rate_limit_storage, now)
           /\ email_storage' = Evict(email_storage, now)
           /\ email_rate_limit_storage' = Evict(email_rate_limit_storage, now)
    /\ UNCHANGED << service, calls, self_otp_storage, dbVars, budget, nextCred, failed,
                    wins, compared, window, last >>

Tick == Advance(Around(Lifetimes(service)))

----------------------------------------------------------------------------
(* SMSService, one call at a time *)

\* send_otp storing the OTP before it asks the rate limiter
SmsSendOtpStoreFirst(p, c, delivered) ==
    /\ service = "sms"
    /\ IF ~CheckRateLimit(sms_rate_limit_storage, p, clock)
       THEN /\ otp_storage' =
                   StoreData(otp_storage, p,
                             [code |-> c, attempts |-> 0,
                              expires_at |-> clock + MinutesToTicks(OTP_EXPIRE_MINUTES),
                              cred |-> nextCred],
                             MinutesToTicks(OTP_EXPIRE_MINUTES), clock)
            /\ last' = Returned("sms_send_otp", 0, "RATE_LIMIT_EXCEEDED", Pre(p))
            /\ UNCHANGED << sms_rate_limit_storage, budget, nextCred, failed, window >>
       ELSE /\ budget > 0
            /\ budget' = budget - 1
            /\ otp_storage' =
                   StoreData(otp_storage, p,
                             [code |-> c, attempts |-> 0,
                              expires_at |-> clock + MinutesToTicks(OTP_EXPIRE_MINUTES),
                              cred |-> nextCred],
                             MinutesToTicks(OTP_EXPIRE_MINUTES), clock)
            /\ nextCred' = nextCred + 1
            /\ failed' = [failed EXCEPT ![p] = 0]
            /\ IF delivered
               THEN /\ sms_rate_limit_storage' =
                           IncrementRateLimit(sms_rate_limit_storage, p, clock)
                    /\ window' = [window EXCEPT ![p] = RecordIssuance(@, clock)]
                    /\ last' = Returned("sms_send_otp", c, "SUCCESS", Pre(p))
               ELSE /\ UNCHANGED << sms_rate_limit_storage, window >>
                    /\ last' = Returned("sms_send_otp", c, "SMS_SEND_FAILED", Pre(p))
    /\ UNCHANGED << service, calls, clock, emailVars, self_otp_storage, dbVars, wins, compared >>

\* send_otp(phone_number); c is generate_otp(), delivered is whether
\* client.messages.create returned (it always does in development mode)
SmsSendOtp(p, c, delivered) ==
    /\ service = "sms"
    /\ IF ~CheckRateLimit(sms_rate_limit_storage, p, clock)
       THEN /\ last' = Returned("sms_send_otp", 0, "RATE_LIMIT_EXCEEDED", Pre(p))
            /\ UNCHANGED << smsVars, budget, nextCred, failed, window >>
       ELSE /\ budget > 0
            /\ budget' = budget - 1
            /\ otp_storage' =
                   StoreData(otp_storage, p,
                             [code |-> c, attempts |-> 0,
                              expires_at |-> clock + MinutesToTicks(OTP_EXPIRE_MINUTES),
                              cred |-> nextCred],
                             MinutesToTicks(OTP_EXPIRE_MINUTES), clock)
            /\ nextCred' = nextCred + 1
            /\ failed' = [failed EXCEPT ![p] = 0]
            /\ IF delivered
               THEN /\ sms_rate_limit_storage' =
                           IncrementRateLimit(sms_rate_limit_storage, p, clock)
                    /\ window' = [window EXCEPT ![p] = RecordIssuance(@, clock)]
                    /\ last' = Returned("sms_send_otp", c, "SUCCESS", Pre(p))
               ELSE /\ UNCHANGED << sms_rate_limit_storage, window >>
                    /\ last' = Returned("sms_send_otp", c, "SMS_SEND_FAILED", Pre(p))
    /\ UNCHANGED << service, calls, clock, emailVars, self_otp_storage, dbVars, wins, compared >>

\* verify_otp(phone_number, otp_code): what the call returns for the entry it read
\* verify_otp without the check of expires_at
SmsVerifyResultNoExpiry(has, data, code, now) ==
    IF ~has THEN "OTP_NOT_FOUND"
    ELSE IF data.attempts >= MAX_OTP_ATTEMPTS THEN "MAX_ATTEMPTS_EXCEEDED"
    ELSE IF data.code = code THEN "SUCCESS"
    ELSE IF MAX_OTP_ATTEMPTS - (data.attempts + 1) > 0 THEN "INVALID_OTP"
    ELSE "MAX_ATTEMPTS_EXCEEDED"

SmsVerifyResult(has, data, code, now) ==
    IF ~has THEN "OTP_NOT_FOUND"
    ELSE IF now > data.expires_at THEN "OTP_EXPIRED"
    ELSE IF data.attempts >= MAX_OTP_ATTEMPTS THEN "MAX_ATTEMPTS_EXCEEDED"
    ELSE IF data.code = code THEN "SUCCESS"
    ELSE IF MAX_OTP_ATTEMPTS - (data.attempts + 1) > 0 THEN "INVALID_OTP"
    ELSE "MAX_ATTEMPTS_EXCEEDED"

\* verify_otp: the dict returned, as far as its error code and its count
\* of remaining attempts go
SmsVerifyResponse(has, data, code, now) ==
    LET res == SmsVerifyResult(has, data, code, now)
    IN  IF res = "INVALID_OTP"
        THEN [error_code |-> res,
              remaining_attempts |-> MAX_OTP_ATTEMPTS - (data.attempts + 1)]
        ELSE [error_code |-> res]

\* verify_otp: the call gets as far as comparing the codes
SmsCompares(has, data, now) ==
    has /\ ~(now > data.expires_at) /\ ~(data.attempts >= MAX_OTP_ATTEMPTS)

\* verify_otp: what the call writes, for the entry it read
SmsVerifyWrite(storage, key, data, res, now) ==
    CASE res = "OTP_NOT_FOUND" -> storage
      [] res = "INVALID_OTP" ->
            StoreData(storage, key, [data EXCEPT !.attempts = @ + 1],
                      data.expires_at - now, now)
      [] OTHER -> DeleteData(storage, key)

SmsVerifyOtp(p, c) ==
    LET has == HasData(otp_storage, p, clock)
        data == IF has THEN GetData(otp_storage, p) ELSE [cred |-> 0]
        res == SmsVerifyResult(has, data, c, clock)
    IN  /\ service = "sms"
        /\ otp_storage' = SmsVerifyWrite(otp_storage, p, data, res, clock)
        /\ failed' = CountVerify(failed, p, res)
        /\ wins' = IF res = "SUCCESS" THEN Bump(wins, data.cred) ELSE wins
        /\ compared' = IF SmsCompares(has, data, clock)
                        THEN CountCompared(compared, data.cred) ELSE compared
        /\ last' = Returned("sms_verify_otp", c, res, Pre(p))
        /\ UNCHANGED << service, calls, clock, sms_rate_limit_storage, emailVars,
                        self_otp_storage, dbVars, budget, nextCred, window >>

\* verify_otp(phone_number, otp_code) called at the instant expires_at of
\* the stored OTP.  The deadline of the entry in the store was set just
\* after expires_at was computed, so _get_data still returns the entry;
\* utcnow() > expires_at is false, and a failed attempt stores the entry
\* again with remaining_time = 0, that is with the default lifetime.
SmsVerifyOtpAtExpiry(p, c) ==
    LET has == HasData(otp_storage, p, clock)
        data == IF has THEN GetData(otp_storage, p) ELSE [cred |-> 0, expires_at |-> 0]
        now == data.expires_at
        res == SmsVerifyResult(has, data, c, now)
    IN  /\ service = "sms"
        /\ has
        /\ otp_storage[p].expires_at = data.expires_at
        /\ clock' = now
        /\ otp_storage' = SmsVerifyWrite(otp_storage, p, data, res, now)
        /\ sms_rate_limit_storage' = Evict(sms_rate_limit_storage, now)
        /\ failed' = CountVerify(failed, p, res)
        /\ wins' = IF res = "SUCCESS" THEN Bump(wins, data.cred) ELSE wins
        /\ compared' = IF SmsCompares(has, data, now)
                        THEN CountCompared(compared, data.cred) ELSE compared
        /\ last' = Returned("sms_verify_otp", c, res, Pre(p))
        /\ UNCHANGED << service, calls, emailVars, self_otp_storage, dbVars, budget,
                        nextCred, window >>

----------------------------------------------------------------------------
(* EmailService (app/services/email_service.py), one call at a time *)

\* send_verification_email(email); the token of generate_verification_token()
\* is new, delivered is whether _send_smtp_email returned (it is not called
\* in development mode)
EmailSendVerification(e, delivered) ==
    /\ service = "email"
    /\ IF ~CheckRateLimit(email_rate_limit_storage, e, clock)
       THEN /\ last' = Returned("send_verification_email", 0, "RATE_LIMIT_EXCEEDED", Pre(e))
            /\ UNCHANGED << emailVars, budget, nextCred, failed, window >>
       ELSE /\ budget > 0
            /\ budget' = budget - 1
            /\ email_storage' =
                   StoreData(email_storage, nextCred,
                             [email |-> e, verified |-> FALSE,
                              expires_at |-> clock + HoursToTicks(EMAIL_TOKEN_EXPIRE_HOURS),
                              cred |-> nextCred],
                             HoursToTicks(EMAIL_TOKEN_EXPIRE_HOURS), clock)
            /\ nextCred' = nextCred + 1
            /\ failed' = [failed EXCEPT ![e] = 0]
            /\ IF delivered
               THEN /\ email_rate_limit_storage' =
                           IncrementRateLimit(email_rate_limit_storage, e, clock)
                    /\ window' = [window EXCEPT ![e] = RecordIssuance(@, clock)]
                    /\ last' = Returned("send_verification_email", nextCred, "SUCCESS", Pre(e))
               ELSE /\ UNCHANGED << email_rate_limit_storage, window >>
                    /\ last' = Returned("send_verification_email", nextCred,
                                        "EMAIL_SEND_FAILED", Pre(e))
    /\ UNCHANGED << service, calls, clock, smsVars, self_otp_storage, dbVars, wins, compared >>

\* verify_email_token(token): what the call returns for the entry it read
\* verify_email_token answering for a missing token as for an expired one
EmailVerifyResultAbsentExpired(has, data, now) ==
    IF ~has THEN "TOKEN_EXPIRED"
    ELSE IF data.verified THEN "ALREADY_VERIFIED"
    ELSE IF now > data.expires_at THEN "TOKEN_EXPIRED"
    ELSE "SUCCESS"

EmailVerifyResult(has, data, now) ==
    IF ~has THEN "TOKEN_NOT_FOUND"
    ELSE IF data.verified THEN "ALREADY_VERIFIED"
    ELSE IF now > data.expires_at THEN "TOKEN_EXPIRED"
    ELSE "SUCCESS"

\* verify_email_token: what the call writes, for the entry it read
EmailVerifyWrite(storage, key, data, res, now) ==
    CASE res = "TOKEN_EXPIRED" -> DeleteData(storage, key)
      [] res = "SUCCESS" ->
            StoreData(storage, key, [data EXCEPT !.verified = TRUE],
                      SecondsToTicks(EMAIL_VERIFIED_KEEP_SECONDS), now)
      [] OTHER -> storage

\* the tokens a caller presents: those issued, and 0 for one never issued
Tokens == 0..(nextCred - 1)

EmailVerifyToken(t) ==
    LET has == HasData(email_storage, t, clock)
        data == IF has THEN GetData(email_storage, t) ELSE [cred |-> 0]
        res == EmailVerifyResult(has, data, clock)
    IN  /\ service = "email"
        /\ email_storage' = EmailVerifyWrite(email_storage, t, data, res, clock)
        /\ wins' = IF res = "SUCCESS" THEN Bump(wins, data.cred) ELSE wins
        /\ last' = Returned("verify_email_token", t, res, {})
        /\ UNCHANGED << service, calls, clock, smsVars, email_rate_limit_storage,
                        self_otp_storage, dbVars, budget, nextCred, failed,
                        compared, window >>

----------------------------------------------------------------------------
(* OTPService (app/modules/auth/services/otp_service.py), phone OTPs kept  *)
(* in the dict of the instance, one call at a time.  The calls return no   *)
(* error code; the results are named after their messages.                 *)

\* send_otp(db, phone_number, purpose)
OtpStore(storage, p, purpose, c, cred, now) ==
    Put(storage, p,
        [code |-> c, purpose |-> purpose,
         expires_at |-> now + MinutesToTicks(SELF_OTP_EXPIRE_MINUTES),
         attempts |-> 0, max_attempts |-> SELF_OTP_MAX_ATTEMPTS, cred |-> cred])

OtpIssue(op, p, purpose, c) ==
    /\ service = "otp"
    /\ budget > 0
    /\ budget' = budget - 1
    /\ self_otp_storage' = OtpStore(self_otp_storage, p, purpose, c, nextCred, clock)
    /\ nextCred' = nextCred + 1
    /\ failed' = [failed EXCEPT ![p] = 0]
    /\ last' = Returned(op, c, "SUCCESS", Pre(p))
    /\ UNCHANGED << service, calls, clock, smsVars, emailVars, dbVars, wins, compared, window >>

OtpSendOtp(p, purpose, c) == OtpIssue("otp_send_otp", p, purpose, c)

\* resend_otp: the stored OTP is deleted, then send_otp
OtpResendOtp(p, purpose, c) == OtpIssue("otp_resend_otp", p, purpose, c)

\* verify_otp(db, phone_number, otp_code, purpose): what the call returns
OtpVerifyResult(has, stored, code, purpose, now) ==
    IF ~has THEN "NO_OTP_FOUND"
    ELSE IF now > stored.expires_at THEN "OTP_EXPIRED"
    ELSE IF stored.attempts >= stored.max_attempts THEN "MAX_ATTEMPTS_EXCEEDED"
    ELSE IF stored.code = code /\ stored.purpose = purpose THEN "SUCCESS"
    ELSE "INVALID_OTP"

\* verify_otp: the dict returned, as far as its outcome and its count of
\* remaining attempts go
OtpVerifyResponse(has, stored, code, purpose, now) ==
    LET res == OtpVerifyResult(has, stored, code, purpose, now)
    IN  IF res = "INVALID_OTP"
        THEN [error_code |-> res,
              attempts_remaining |-> stored.max_attempts - (stored.attempts + 1)]
        ELSE [error_code |-> res]

\* verify_otp: what the call does to the dict
OtpVerifyWrite(storage, p, res) ==
    CASE res = "NO_OTP_FOUND" -> storage
      [] res = "INVALID_OTP" -> [storage EXCEPT ![p].attempts = @ + 1]
      [] OTHER -> DeleteData(storage, p)

OtpVerifyOtp(p, c, purpose) ==
    LET has == p \in DOMAIN self_otp_storage
        stored == IF has THEN self_otp_storage[p] ELSE [cred |-> 0]
        res == OtpVerifyResult(has, stored, c, purpose, clock)
    IN  /\ service = "otp"
        /\ self_otp_storage' = OtpVerifyWrite(self_otp_storage, p, res)
        /\ failed' = CountVerify(failed, p, res)
        /\ wins' = IF res = "SUCCESS" THEN Bump(wins, stored.cred) ELSE wins
        /\ last' = Returned("otp_verify_otp", c, res, Pre(p))
        /\ UNCHANGED << service, calls, clock, smsVars, emailVars, dbVars, budget, nextCred,
                        compared, window >>

----------------------------------------------------------------------------
(* The tables and their repositories *)

\* PasswordResetToken.is_expired, OTPVerification.is_expired
IsExpired(row, now) == now > row.expires_at

\* PasswordResetToken.is_valid
IsValidToken(row, now) == ~row.is_used /\ ~IsExpired(row, now)

\* OTPVerification.is_valid
IsValidOtp(row, now) == ~row.is_verified /\ ~IsExpired(row, now)

\* PasswordResetRepository.create
CreateToken(table, token, user_id, now) ==
    Put(table, token,
        [user_id |-> user_id, is_used |-> FALSE,
         expires_at |-> now + HoursToTicks(RESET_TOKEN_EXPIRE_HOURS)])

\* mark_as_used with its update lost
MarkAsUsedLost(table, token) == table

\* PasswordResetRepository.mark_as_used (the row is looked up again)
MarkAsUsed(table, token) ==
    IF token \in DOMAIN table THEN [table EXCEPT ![token].is_used = TRUE] ELSE table

\* PasswordResetRepository.delete_expired_tokens
DeleteExpiredTokens(table, now) ==
    [t \in {x \in DOMAIN table : ~(table[x].expires_at < now)} |-> table[t]]

\* create with the row rolled back
CreateOtpRolledBack(table, id, email, code, now) == table

\* PasswordResetOTPRepository.create
CreateOtp(table, id, email, code, now) ==
    Put(table, id,
        [email |-> email, otp_code |-> code, attempts |-> 0, is_verified |-> FALSE,
         expires_at |-> now + MinutesToTicks(RESET_OTP_EXPIRE_MINUTES)])

\* PasswordResetOTPRepository.get_by_email_and_code: the rows the filter
\* keeps; .first() returns one of them (the query states no order)
OtpRowsFor(table, email, code) ==
    {i \in DOMAIN table : table[i].email = email /\ table[i].otp_code = code}

\* PasswordResetOTPRepository.mark_as_verified
MarkAsVerified(table, i) == [table EXCEPT ![i].is_verified = TRUE]

\* PasswordResetOTPRepository.increment_attempts
IncrementAttempts(table, i) == [table EXCEPT ![i].attempts = @ + 1]

\* PasswordResetOTPRepository.delete_expired_otps
DeleteExpiredOtps(table, now) ==
    [i \in {x \in DOMAIN table : ~(table[x].expires_at < now)} |-> table[i]]

\* UserRepository.get_by_email
UsersByEmail(email) == {u \in DOMAIN users : users[u].email = email}

\* app.core.security.get_password_hash
PasswordHash(pw) == << "hash", pw >>

----------------------------------------------------------------------------
(* PasswordResetService, one call at a time *)

\* send_reset_email(db, email); delivered is whether _send_smtp_email
\* returned (it is not called in development mode)
SendResetEmail(e, delivered) ==
    /\ service = "reset"
    /\ IF UsersByEmail(e) = {}
       THEN /\ last' = Returned("send_reset_email", 0, "SUCCESS", Pre(e))
            /\ UNCHANGED << password_reset_tokens, budget, nextCred, failed, window >>
       ELSE \E u \in UsersByEmail(e) :
              IF ~users[u].is_active
              THEN /\ last' = Returned("send_reset_email", 0, "ACCOUNT_INACTIVE", Pre(e))
                   /\ UNCHANGED << password_reset_tokens, budget, nextCred, failed,
                                   window >>
              ELSE /\ budget > 0
                   /\ budget' = budget - 1
                   /\ password_reset_tokens' =
                          CreateToken(password_reset_tokens, nextCred, u, clock)
                   /\ nextCred' = nextCred + 1
                   /\ failed' = [failed EXCEPT ![e] = 0]
                   /\ IF delivered
                      THEN /\ window' = [window EXCEPT ![e] = RecordIssuance(@, clock)]
                           /\ last' = Returned("send_reset_email", nextCred, "SUCCESS", Pre(e))
                      ELSE /\ UNCHANGED window
                           /\ last' = Returned("send_reset_email", nextCred,
                                               "EMAIL_SEND_FAILED", Pre(e))
    /\ UNCHANGED << service, calls, clock, smsVars, emailVars, self_otp_storage, users,
                    otp_verifications, wins, compared >>

\* reset_password(db, token, new_password): what the call returns for the
\* row it read
ResetPasswordResult(found, row, now) ==
    IF ~found THEN "INVALID_TOKEN"
    ELSE IF ~IsValidToken(row, now) /\ row.is_used THEN "TOKEN_USED"
    ELSE IF ~IsValidToken(row, now) /\ IsExpired(row, now) THEN "TOKEN_EXPIRED"
    ELSE IF row.user_id \notin DOMAIN users THEN "USER_NOT_FOUND"
    ELSE IF ~users[row.user_id].is_active THEN "ACCOUNT_INACTIVE"
    ELSE "SUCCESS"

\* what is known of the credential a reset_password call presents
PreToken(t) ==
    IF /\ t \in DOMAIN password_reset_tokens
       /\ ~password_reset_tokens[t].is_used
       /\ clock > password_reset_tokens[t].expires_at
    THEN {"expired"} ELSE {}

ResetPassword(t, pw) ==
    LET found == t \in DOMAIN password_reset_tokens
        row == IF found THEN password_reset_tokens[t] ELSE [user_id |-> "none"]
        res == ResetPasswordResult(found, row, clock)
    IN  /\ service = "reset"
        /\ IF res = "SUCCESS"
           THEN /\ users' = [users EXCEPT ![row.user_id].hashed_password = PasswordHash(pw)]
                /\ password_reset_tokens' =
                       DeleteExpiredTokens(MarkAsUsed(password_reset_tokens, t), clock)
                /\ wins' = Bump(wins, t)
           ELSE UNCHANGED << users, password_reset_tokens, wins >>
        /\ last' = Returned("reset_password", t, res, PreToken(t))
        /\ UNCHANGED << service, calls, clock, smsVars, emailVars, self_otp_storage,
                        otp_verifications, budget, nextCred, failed, compared,
                        window >>

----------------------------------------------------------------------------
(* OTPService, the password-reset OTPs of table otp_verifications, one     *)
(* call at a time                                                          *)

\* send_password_reset_otp(db, email); c is the code create() draws,
\* delivered is whether the Mailtrap or SMTP call returned
SendPasswordResetOtp(e, c, delivered) ==
    /\ service = "reset_otp"
    /\ budget > 0
    /\ budget' = budget - 1
    /\ otp_verifications' = CreateOtp(otp_verifications, nextCred, e, c, clock)
    /\ nextCred' = nextCred + 1
    /\ failed' = [failed EXCEPT ![e] = 0]
    /\ IF delivered
       THEN /\ window' = [window EXCEPT ![e] = RecordIssuance(@, clock)]
            /\ last' = Returned("send_password_reset_otp", c, "SUCCESS", Pre(e))
       ELSE /\ UNCHANGED window
            /\ last' = Returned("send_password_reset_otp", c, "OTP_SEND_FAILED", Pre(e))
    /\ UNCHANGED << service, calls, clock, smsVars, emailVars, self_otp_storage, users,
                    password_reset_tokens, wins, compared >>

\* verify_password_reset_otp(db, email, otp_code): what the call returns
\* for the row that .first() gave it
ResetOtpResult(found, row, code, now) ==
    IF ~found THEN "INVALID_OTP"
    ELSE IF ~IsValidOtp(row, now) /\ row.is_verified THEN "OTP_USED"
    ELSE IF ~IsValidOtp(row, now) /\ IsExpired(row, now) THEN "OTP_EXPIRED"
    ELSE IF row.attempts >= RESET_OTP_MAX_ATTEMPTS THEN "MAX_ATTEMPTS_EXCEEDED"
    ELSE IF row.otp_code = code THEN "SUCCESS"
    ELSE "INVALID_OTP"

\* verify_password_reset_otp: the dict returned, as far as its error code
\* and its count of remaining attempts go; the count is reported by the
\* branch that follows a row found with another code than the one asked for
ResetOtpResponse(found, row, code, now) ==
    LET res == ResetOtpResult(found, row, code, now)
        left == RESET_OTP_MAX_ATTEMPTS - (row.attempts + 1)
    IN  IF res = "INVALID_OTP" /\ found
        THEN [error_code |-> res,
              attempts_remaining |-> IF left > 0 THEN left ELSE 0]
        ELSE [error_code |-> res]

\* verify_password_reset_otp: what the call writes
ResetOtpWrite(table, found, i, res, now) ==
    CASE res = "SUCCESS" -> DeleteExpiredOtps(MarkAsVerified(table, i), now)
      [] res = "INVALID_OTP" /\ found -> IncrementAttempts(table, i)
      [] OTHER -> table

\* what is known of the credentials of an e-mail address when a
\* verify_password_reset_otp call starts
PreOtp(e) ==
    LET mine == {i \in DOMAIN otp_verifications : otp_verifications[i].email = e}
    IN  Pre(e) \cup
        (IF /\ mine # {}
            /\ \A i \in mine : /\ ~otp_verifications[i].is_verified
                               /\ clock > otp_verifications[i].expires_at
         THEN {"expired"} ELSE {})

\* the rows .first() may return: one of the matching rows, 0 when there is none
FirstOf(rows) == IF rows = {} THEN {0} ELSE rows

VerifyPasswordResetOtp(e, c, i) ==
    LET found == i # 0
        row == IF found THEN otp_verifications[i] ELSE [email |-> e]
        res == ResetOtpResult(found, row, c, clock)
    IN  /\ service = "reset_otp"
        /\ i \in FirstOf(OtpRowsFor(otp_verifications, e, c))
        /\ otp_verifications' = ResetOtpWrite(otp_verifications, found, i, res, clock)
        /\ failed' = CountVerify(failed, e, res)
        /\ wins' = IF res = "SUCCESS" THEN Bump(wins, i) ELSE wins
        /\ last' = Returned("verify_password_reset_otp", c, res, PreOtp(e))
        /\ UNCHANGED << service, calls, clock, smsVars, emailVars, self_otp_storage, users,
                        password_reset_tokens, budget, nextCred, compared, window >>

----------------------------------------------------------------------------
(* The database failing while a verification reads it                      *)

\* PasswordResetRepository.get_by_token when the query raises: the
\* exception is caught in the repository and None is returned
GetByTokenStoreDown(table, t) == FALSE

\* PasswordResetOTPRepository.get_by_email_and_code when the query raises
GetByEmailAndCodeStoreDown(table, e, c) == FALSE

\* reset_password(db, token, new_password) with the database unavailable
ResetPasswordStoreDown(t, pw) ==
    LET found == GetByTokenStoreDown(password_reset_tokens, t)
        res == ResetPasswordResult(found, [user_id |-> "none"], clock)
    IN  /\ service = "reset"
        /\ last' = Returned("reset_password", t, res,
                             {"store_down"} \cup
                             (IF t \in DOMAIN password_reset_tokens
                              THEN {"stored"} ELSE {}))
        /\ UNCHANGED << service, calls, clock, smsVars, emailVars, self_otp_storage,
                        users, password_reset_tokens, otp_verifications, budget,
                        nextCred, failed, wins, compared, window >>

\* verify_password_reset_otp(db, email, otp_code) with the database
\* unavailable
VerifyPasswordResetOtpStoreDown(e, c) ==
    LET found == GetByEmailAndCodeStoreDown(otp_verifications, e, c)
        res == ResetOtpResult(found, [email |-> e], c, clock)
    IN  /\ service = "reset_otp"
        /\ last' = Returned("verify_password_reset_otp", c, res,
                             {"store_down"} \cup
                             (IF OtpRowsFor(otp_verifications, e, c) # {}
                              THEN {"stored"} ELSE {}))
        /\ UNCHANGED << service, calls, clock, smsVars, emailVars, self_otp_storage,
                        users, password_reset_tokens, otp_verifications, budget,
                        nextCred, failed, wins, compared, window >>

----------------------------------------------------------------------------

Next ==
    \/ Tick
    \/ \E p \in Phones, c \in Codes, d \in BOOLEAN : SmsSendOtp(p, c, d)
    \/ \E p \in Phones, c \in Codes : SmsVerifyOtp(p, c)
    \/ \E p \in Phones, c \in Codes : SmsVerifyOtpAtExpiry(p, c)
    \/ \E e \in Emails, d \in BOOLEAN : EmailSendVerification(e, d)
    \/ \E t \in Tokens : EmailVerifyToken(t)
    \/ \E p \in Phones, u \in Purposes, c \in Codes : OtpSendOtp(p, u, c)
    \/ \E p \in Phones, u \in Purposes, c \in Codes : OtpResendOtp(p, u, c)
    \/ \E p \in Phones, u \in Purposes, c \in Codes : OtpVerifyOtp(p, c, u)
    \/ \E e \in Emails \cup {"e0", "e2"}, d \in BOOLEAN : SendResetEmail(e, d)
    \/ \E t \in Tokens, pw \in Passwords : ResetPassword(t, pw)
    \/ \E e \in Emails, c \in Codes, d \in BOOLEAN : SendPasswordResetOtp(e, c, d)
    \/ \E e \in Emails, c \in Codes, i \in 0..(nextCred - 1) :
            VerifyPasswordResetOtp(e, c, i)
    \/ \E t \in Tokens, pw \in Passwords : ResetPasswordStoreDown(t, pw)
    \/ \E e \in Emails, c \in Codes : VerifyPasswordResetOtpStoreDown(e, c)

Spec == Init /\ [][Next]_vars

----------------------------------------------------------------------------
(* Issuance alone, over the rate-limit window.  The services that issue    *)
(* credentials by e-mail or SMS are called up to MaxWindowIssue times, at  *)
(* instants around the start and the end of the window.                    *)

IssuingServices == {"sms", "email", "reset", "reset_otp"}

InitIssue ==
    /\ service \in IssuingServices
    /\ budget = MaxWindowIssue
    /\ InitStores

TickWindow == Advance(Around({WindowDuration}))

NextIssue ==
    \/ TickWindow
    \/ \E p \in Phones, c \in Codes, d \in BOOLEAN : SmsSendOtp(p, c, d)
    \/ \E e \in Emails, d \in BOOLEAN : EmailSendVerification(e, d)
    \/ \E e \in Emails, d \in BOOLEAN : SendResetEmail(e, d)
    \/ \E e \in Emails, c \in Codes, d \in BOOLEAN : SendPasswordResetOtp(e, c, d)

SpecIssue == InitIssue /\ [][NextIssue]_vars

----------------------------------------------------------------------------
(* Calls served at the same time.  The endpoints run on a thread pool      *)
(* (the def endpoints) and on several server processes over one Redis and  *)
(* one database; no call takes a lock, so a call's read of a store and its *)
(* write to it are two steps, and the steps of the calls of different      *)
(* workers interleave.  A burst of calls is made within one tick.          *)

Serving(w, pc) == calls[w].pc = pc

Serve(w, call) == [calls EXCEPT ![w] = call]

\* SMSService.verify_otp, up to the comparison of the codes: _get_data and
\* the checks on the entry it returned
SmsVerifyRead(w, p, c) ==
    LET has == HasData(otp_storage, p, clock)
        data == IF has THEN GetData(otp_storage, p) ELSE [cred |-> 0]
        res == SmsVerifyResult(has, data, c, clock)
    IN  /\ service = "sms"
        /\ Serving(w, "idle")
        /\ compared' = IF SmsCompares(has, data, clock)
                        THEN CountCompared(compared, data.cred) ELSE compared
        /\ IF res = "OTP_NOT_FOUND"
           THEN /\ failed' = CountFailed(failed, p)
                /\ last' = Returned("sms_verify_otp", c, res, Pre(p))
                /\ UNCHANGED calls
           ELSE /\ calls' = Serve(w, [pc |-> "sms_write", key |-> p, code |-> c,
                                      data |-> data, res |-> res, pre |-> Pre(p)])
                /\ UNCHANGED << failed, last >>
        /\ UNCHANGED << service, clock, smsVars, emailVars, self_otp_storage, dbVars,
                        budget, nextCred, wins, window >>

\* SMSService.verify_otp, from the comparison on: _delete_data or
\* _store_data of the entry it read, and the return
SmsVerifyFinish(w) ==
    LET call == calls[w]
    IN  /\ Serving(w, "sms_write")
        /\ otp_storage' = SmsVerifyWrite(otp_storage, call.key, call.data, call.res, clock)
        /\ failed' = CountVerify(failed, call.key, call.res)
        /\ wins' = IF call.res = "SUCCESS" THEN Bump(wins, call.data.cred) ELSE wins
        /\ last' = Returned("sms_verify_otp", call.code, call.res, call.pre)
        /\ calls' = Serve(w, Idle)
        /\ UNCHANGED << service, clock, sms_rate_limit_storage, emailVars,
                        self_otp_storage, dbVars, budget, nextCred, compared,
                        window >>

\* EmailService.verify_email_token, up to its write: _get_data and the
\* checks on the entry it returned
EmailVerifyRead(w, t) ==
    LET has == HasData(email_storage, t, clock)
        data == IF has THEN GetData(email_storage, t) ELSE [cred |-> 0]
        res == EmailVerifyResult(has, data, clock)
    IN  /\ service = "email"
        /\ Serving(w, "idle")
        /\ IF res \in {"TOKEN_NOT_FOUND", "ALREADY_VERIFIED"}
           THEN /\ last' = Returned("verify_email_token", t, res, {})
                /\ UNCHANGED calls
           ELSE /\ calls' = Serve(w, [pc |-> "email_write", key |-> t, data |-> data,
                                      res |-> res])
                /\ UNCHANGED last
        /\ UNCHANGED << service, clock, smsVars, emailVars, self_otp_storage, dbVars,
                        budget, nextCred, failed, wins, compared, window >>

\* EmailService.verify_email_token: _delete_data or _store_data of the
\* entry it read, and the return
EmailVerifyFinish(w) ==
    LET call == calls[w]
    IN  /\ Serving(w, "email_write")
        /\ email_storage' =
               EmailVerifyWrite(email_storage, call.key, call.data, call.res, clock)
        /\ wins' = IF call.res = "SUCCESS" THEN Bump(wins, call.data.cred) ELSE wins
        /\ last' = Returned("verify_email_token", call.key, call.res, {})
        /\ calls' = Serve(w, Idle)
        /\ UNCHANGED << service, clock, smsVars, email_rate_limit_storage,
                        self_otp_storage, dbVars, budget, nextCred, failed,
                        compared, window >>

\* PasswordResetService.reset_password, up to its writes: get_by_token,
\* the checks on the row and on the user
ResetPasswordRead(w, t, pw) ==
    LET found == t \in DOMAIN password_reset_tokens
        row == IF found THEN password_reset_tokens[t] ELSE [user_id |-> "none"]
        res == ResetPasswordResult(found, row, clock)
    IN  /\ service = "reset"
        /\ Serving(w, "idle")
        /\ IF res # "SUCCESS"
           THEN /\ last' = Returned("reset_password", t, res, PreToken(t))
                /\ UNCHANGED calls
           ELSE /\ calls' = Serve(w, [pc |-> "reset_commit", token |-> t, pw |-> pw,
                                      user_id |-> row.user_id, pre |-> PreToken(t)])
                /\ UNCHANGED last
        /\ UNCHANGED << service, clock, smsVars, emailVars, self_otp_storage, dbVars,
                        budget, nextCred, failed, wins, compared, window >>

\* reset_password: user.hashed_password = ..., db.commit()
ResetPasswordCommit(w) ==
    LET call == calls[w]
    IN  /\ Serving(w, "reset_commit")
        /\ users' = [users EXCEPT ![call.user_id].hashed_password = PasswordHash(call.pw)]
        /\ calls' = Serve(w, [call EXCEPT !.pc = "reset_mark"])
        /\ UNCHANGED << service, clock, smsVars, emailVars, self_otp_storage,
                        password_reset_tokens, otp_verifications, budget, nextCred, failed, wins, compared, window, last >>

\* reset_password: mark_as_used, delete_expired_tokens and the return
ResetPasswordFinish(w) ==
    LET call == calls[w]
    IN  /\ Serving(w, "reset_mark")
        /\ password_reset_tokens' =
               DeleteExpiredTokens(MarkAsUsed(password_reset_tokens, call.token), clock)
        /\ wins' = Bump(wins, call.token)
        /\ last' = Returned("reset_password", call.token, "SUCCESS", call.pre)
        /\ calls' = Serve(w, Idle)
        /\ UNCHANGED << service, clock, smsVars, emailVars, self_otp_storage, users,
                        otp_verifications, budget, nextCred, failed, compared,
                        window >>

\* OTPService.verify_password_reset_otp, up to its writes:
\* get_by_email_and_code and the checks on the row
ResetOtpRead(w, e, c, i) ==
    LET found == i # 0
        row == IF found THEN otp_verifications[i] ELSE [email |-> e]
        res == ResetOtpResult(found, row, c, clock)
    IN  /\ service = "reset_otp"
        /\ Serving(w, "idle")
        /\ i \in FirstOf(OtpRowsFor(otp_verifications, e, c))
        /\ IF res # "SUCCESS"
           THEN /\ otp_verifications' = ResetOtpWrite(otp_verifications, found, i, res, clock)
                /\ failed' = CountFailed(failed, e)
                /\ last' = Returned("verify_password_reset_otp", c, res, PreOtp(e))
                /\ UNCHANGED calls
           ELSE /\ calls' = Serve(w, [pc |-> "otp_mark", email |-> e, code |-> c, row |-> i,
                                      pre |-> PreOtp(e)])
                /\ UNCHANGED << otp_verifications, failed, last >>
        /\ UNCHANGED << service, clock, smsVars, emailVars, self_otp_storage, users,
                        password_reset_tokens, budget, nextCred, wins, compared,
                        window >>

\* verify_password_reset_otp: mark_as_verified, delete_expired_otps and
\* the return
ResetOtpFinish(w) ==
    LET call == calls[w]
    IN  /\ Serving(w, "otp_mark")
        /\ otp_verifications' =
               ResetOtpWrite(otp_verifications, TRUE, call.row, "SUCCESS", clock)
        /\ failed' = CountVerify(failed, call.email, "SUCCESS")
        /\ wins' = Bump(wins, call.row)
        /\ last' = Returned("verify_password_reset_otp", call.code, "SUCCESS", call.pre)
        /\ calls' = Serve(w, Idle)
        /\ UNCHANGED << service, clock, smsVars, emailVars, self_otp_storage, users,
                        password_reset_tokens, budget, nextCred, compared, window >>

ConcurrentServices == {"sms", "email", "reset", "reset_otp"}

InitConc ==
    /\ service \in ConcurrentServices
    /\ budget = MaxConcIssue
    /\ InitStores

NextConc ==
    \/ \E p \in Phones, c \in Codes, d \in BOOLEAN : SmsSendOtp(p, c, d)
    \/ \E e \in Emails, d \in BOOLEAN : EmailSendVerification(e, d)
    \/ \E e \in Emails, d \in BOOLEAN : SendResetEmail(e, d)
    \/ \E e \in Emails, c \in Codes, d \in BOOLEAN : SendPasswordResetOtp(e, c, d)
    \/ \E w \in Workers, p \in Phones, c \in Codes : SmsVerifyRead(w, p, c)
    \/ \E w \in Workers : SmsVerifyFinish(w)
    \/ \E w \in Workers, t \in Tokens : EmailVerifyRead(w, t)
    \/ \E w \in Workers : EmailVerifyFinish(w)
    \/ \E w \in Workers, t \in Tokens, pw \in Passwords : ResetPasswordRead(w, t, pw)
    \/ \E w \in Workers : ResetPasswordCommit(w)
    \/ \E w \in Workers : ResetPasswordFinish(w)
    \/ \E w \in Workers, e \in Emails, c \in Codes, i \in 0..(nextCred - 1) :
            ResetOtpRead(w, e, c, i)
    \/ \E w \in Workers : ResetOtpFinish(w)

SpecConc == InitConc /\ [][NextConc]_vars

----------------------------------------------------------------------------
(* The cleanup of expired rows, statement by statement: the SELECT of      *)
(* delete_expired_otps / delete_expired_tokens, and its DELETEs with the    *)
(* commit.  A DELETE that matches no row because another session has       *)
(* deleted the row already is not an error of the session (SQLAlchemy      *)
(* warns and goes on), so the count returned is that of the rows selected. *)

\* the rows the cleanup selects: expires_at < now
ExpiredRows(table, now) == {x \in DOMAIN table : table[x].expires_at < now}

\* db.delete of each selected row and db.commit()
DeleteRows(table, rows) == [x \in DOMAIN table \ rows |-> table[x]]

\* a row that can still be verified: valid and with attempts left
ActiveOtp(row, now) == IsValidOtp(row, now) /\ row.attempts < RESET_OTP_MAX_ATTEMPTS

\* verify_password_reset_otp: mark_as_verified
ResetOtpMark(w) ==
    LET call == calls[w]
    IN  /\ Serving(w, "otp_mark")
        /\ otp_verifications' =
               IF call.row \in DOMAIN otp_verifications
               THEN MarkAsVerified(otp_verifications, call.row) ELSE otp_verifications
        /\ failed' = CountVerify(failed, call.email, "SUCCESS")
        /\ wins' = Bump(wins, call.row)
        /\ calls' = Serve(w, [call EXCEPT !.pc = "otp_sweep"])
        /\ UNCHANGED << service, clock, smsVars, emailVars, self_otp_storage, users,
                        password_reset_tokens, budget, nextCred, compared, window,
                        last >>

\* delete_expired_otps: the query of the expired rows
SweepOtpsQuery(w) ==
    LET call == calls[w]
    IN  /\ Serving(w, "otp_sweep")
        /\ calls' = Serve(w, [pc |-> "otp_delete", code |-> call.code, pre |-> call.pre,
                              expired |-> ExpiredRows(otp_verifications, clock)])
        /\ UNCHANGED << service, clock, smsVars, emailVars, self_otp_storage, dbVars,
                        budget, nextCred, failed, wins, compared, window, last >>

\* delete_expired_otps: count = len(expired_otps), the deletes, the commit
SweepOtpsDelete(w) ==
    LET call == calls[w]
        gone == call.expired \cap DOMAIN otp_verifications
    IN  /\ Serving(w, "otp_delete")
        /\ otp_verifications' = DeleteRows(otp_verifications, call.expired)
        /\ calls' = Serve(w, [pc |-> "otp_return", code |-> call.code, pre |-> call.pre,
                              count |-> Cardinality(call.expired),
                              deleted |-> Cardinality(gone),
                              active |-> \E i \in gone :
                                            ActiveOtp(otp_verifications[i], clock)])
        /\ UNCHANGED << service, clock, smsVars, emailVars, self_otp_storage, users,
                        password_reset_tokens, budget, nextCred, failed, wins,
                        compared, window, last >>

\* verify_password_reset_otp: the return
ResetOtpReturn(w) ==
    LET call == calls[w]
    IN  /\ Serving(w, "otp_return")
        /\ last' = Returned("verify_password_reset_otp", call.code, "SUCCESS", call.pre)
        /\ calls' = Serve(w, Idle)
        /\ UNCHANGED << service, clock, smsVars, emailVars, self_otp_storage, dbVars,
                        budget, nextCred, failed, wins, compared, window >>

\* reset_password: mark_as_used
ResetPasswordMark(w) ==
    LET call == calls[w]
    IN  /\ Serving(w, "reset_mark")
        /\ password_reset_tokens' = MarkAsUsed(password_reset_tokens, call.token)
        /\ wins' = Bump(wins, call.token)
        /\ calls' = Serve(w, [call EXCEPT !.pc = "token_sweep"])
        /\ UNCHANGED << service, clock, smsVars, emailVars, self_otp_storage, users,
                        otp_verifications, budget, nextCred, failed, compared,
                        window, last >>

\* delete_expired_tokens: the query of the expired rows
SweepTokensQuery(w) ==
    LET call == calls[w]
    IN  /\ Serving(w, "token_sweep")
        /\ calls' = Serve(w, [pc |-> "token_delete", code |-> call.token,
                              pre |-> call.pre,
                              expired |-> ExpiredRows(password_reset_tokens, clock)])
        /\ UNCHANGED << service, clock, smsVars, emailVars, self_otp_storage, dbVars,
                        budget, nextCred, failed, wins, compared, window, last >>

\* delete_expired_tokens: count = len(expired_tokens), the deletes, the
\* commit
SweepTokensDelete(w) ==
    LET call == calls[w]
        gone == call.expired \cap DOMAIN password_reset_tokens
    IN  /\ Serving(w, "token_delete")
        /\ password_reset_tokens' = DeleteRows(password_reset_tokens, call.expired)
        /\ calls' = Serve(w, [pc |-> "token_return", code |-> call.code,
                              pre |-> call.pre,
                              count |-> Cardinality(call.expired),
                              deleted |-> Cardinality(gone),
                              active |-> \E t \in gone :
                                            IsValidToken(password_reset_tokens[t], clock)])
        /\ UNCHANGED << service, clock, smsVars, emailVars, self_otp_storage, users,
                        otp_verifications, budget, nextCred, failed, wins, compared,
                        window, last >>

\* reset_password: the return
ResetPasswordReturn(w) ==
    LET call == calls[w]
    IN  /\ Serving(w, "token_return")
        /\ last' = Returned("reset_password", call.code, "SUCCESS", call.pre)
        /\ calls' = Serve(w, Idle)
        /\ UNCHANGED << service, clock, smsVars, emailVars, self_otp_storage, dbVars,
                        budget, nextCred, failed, wins, compared, window >>

\* time passes between the calls
TickIdle ==
    /\ \A w \in Workers : Serving(w, "idle")
    /\ Tick

SweepingServices == {"reset", "reset_otp"}

InitSweep ==
    /\ service \in SweepingServices
    /\ budget = MaxSweepIssue
    /\ InitStores

NextSweep ==
    \/ TickIdle
    \/ \E e \in Emails : SendResetEmail(e, TRUE)
    \/ \E e \in Emails, c \in {1} : SendPasswordResetOtp(e, c, TRUE)
    \/ \E w \in Workers, t \in Tokens : ResetPasswordRead(w, t, "pwA")
    \/ \E w \in Workers : ResetPasswordCommit(w)
    \/ \E w \in Workers : ResetPasswordMark(w)
    \/ \E w \in Workers : SweepTokensQuery(w)
    \/ \E w \in Workers : SweepTokensDelete(w)
    \/ \E w \in Workers : ResetPasswordReturn(w)
    \/ \E w \in Workers, e \in Emails, c \in Codes, i \in 0..(nextCred - 1) :
            ResetOtpRead(w, e, c, i)
    \/ \E w \in Workers : ResetOtpMark(w)
    \/ \E w \in Workers : SweepOtpsQuery(w)
    \/ \E w \in Workers : SweepOtpsDelete(w)
    \/ \E w \in Workers : ResetOtpReturn(w)

SpecSweep == InitSweep /\ [][NextSweep]_vars

----------------------------------------------------------------------------
(* reset_password with the database failing in mark_as_used, one call at   *)
(* a time                                                                  *)

\* PasswordResetRepository.mark_as_used when its commit raises: rollback,
\* False is returned
MarkAsUsedFailed(table, token) == table

\* reset_password(db, token, new_password) when mark_as_used fails: the
\* value it returns is not looked at
ResetPasswordMarkFailed(t, pw) ==
    LET found == t \in DOMAIN password_reset_tokens
        row == IF found THEN password_reset_tokens[t] ELSE [user_id |-> "none"]
        res == ResetPasswordResult(found, row, clock)
    IN  /\ service = "reset"
        /\ res = "SUCCESS"
        /\ users' = [users EXCEPT ![row.user_id].hashed_password = PasswordHash(pw)]
        /\ password_reset_tokens' =
               DeleteExpiredTokens(MarkAsUsedFailed(password_reset_tokens, t), clock)
        /\ wins' = Bump(wins, t)
        /\ last' = Returned("reset_password", t, res, PreToken(t) \cup {"mark_failed"})
        /\ UNCHANGED << service, calls, clock, smsVars, emailVars, self_otp_storage,
                        otp_verifications, budget, nextCred, failed, compared,
                        window >>

InitFault ==
    /\ service = "reset"
    /\ budget = MaxIssue
    /\ InitStores

NextFault ==
    \/ Tick
    \/ \E e \in Emails, d \in BOOLEAN : SendResetEmail(e, d)
    \/ \E t \in Tokens, pw \in Passwords : ResetPassword(t, pw)
    \/ \E t \in Tokens, pw \in Passwords : ResetPasswordMarkFailed(t, pw)

SpecFault == InitFault /\ [][NextFault]_vars

----------------------------------------------------------------------------
(* Issuances served at the same time, within one tick.  A call checks the  *)
(* rate limit first and counts itself last, and _increment_rate_limit is a *)
(* read of the counter followed by a write of it.                          *)

\* send_otp up to the delivery: _check_rate_limit, the OTP stored, the SMS
\* sent
SmsSendBegin(w, p, c) ==
    /\ service = "sms"
    /\ Serving(w, "idle")
    /\ IF ~CheckRateLimit(sms_rate_limit_storage, p, clock)
       THEN /\ last' = Returned("sms_send_otp", 0, "RATE_LIMIT_EXCEEDED", Pre(p))
            /\ UNCHANGED << otp_storage, budget, nextCred, failed, calls >>
       ELSE /\ budget > 0
            /\ budget' = budget - 1
            /\ otp_storage' =
                   StoreData(otp_storage, p,
                             [code |-> c, attempts |-> 0,
                              expires_at |-> clock + MinutesToTicks(OTP_EXPIRE_MINUTES),
                              cred |-> nextCred],
                             MinutesToTicks(OTP_EXPIRE_MINUTES), clock)
            /\ nextCred' = nextCred + 1
            /\ failed' = [failed EXCEPT ![p] = 0]
            /\ calls' = Serve(w, [pc |-> "sms_count", key |-> p, code |-> c,
                                  pre |-> Pre(p)])
            /\ UNCHANGED last
    /\ UNCHANGED << service, clock, sms_rate_limit_storage, emailVars, self_otp_storage,
                    dbVars, wins, compared, window >>

\* _increment_rate_limit: the counter is read
SmsSendCount(w) ==
    LET call == calls[w]
        current == IF HasData(sms_rate_limit_storage, call.key, clock)
                   THEN GetData(sms_rate_limit_storage, call.key) ELSE [count |-> 0]
    IN  /\ Serving(w, "sms_count")
        /\ calls' = Serve(w, [pc |-> "sms_counted", key |-> call.key, code |-> call.code,
                              pre |-> call.pre, count |-> current.count + 1])
        /\ UNCHANGED << service, clock, smsVars, emailVars, self_otp_storage, dbVars,
                        budget, nextCred, failed, wins, compared, window, last >>

\* _increment_rate_limit: the counter is written; send_otp returns success
SmsSendFinish(w) ==
    LET call == calls[w]
    IN  /\ Serving(w, "sms_counted")
        /\ sms_rate_limit_storage' =
               StoreData(sms_rate_limit_storage, call.key, [count |-> call.count],
                         SecondsToTicks(RATE_LIMIT_EXPIRE_SECONDS), clock)
        /\ window' = [window EXCEPT ![call.key] = RecordIssuance(@, clock)]
        /\ last' = Returned("sms_send_otp", call.code, "SUCCESS", call.pre)
        /\ calls' = Serve(w, Idle)
        /\ UNCHANGED << service, clock, otp_storage, emailVars, self_otp_storage, dbVars,
                        budget, nextCred, failed, wins, compared >>

\* send_verification_email up to the delivery: _check_rate_limit, the token
\* stored, the e-mail sent
EmailSendBegin(w, e) ==
    /\ service = "email"
    /\ Serving(w, "idle")
    /\ IF ~CheckRateLimit(email_rate_limit_storage, e, clock)
       THEN /\ last' = Returned("send_verification_email", 0, "RATE_LIMIT_EXCEEDED", Pre(e))
            /\ UNCHANGED << email_storage, budget, nextCred, failed, calls >>
       ELSE /\ budget > 0
            /\ budget' = budget - 1
            /\ email_storage' =
                   StoreData(email_storage, nextCred,
                             [email |-> e, verified |-> FALSE,
                              expires_at |-> clock + HoursToTicks(EMAIL_TOKEN_EXPIRE_HOURS),
                              cred |-> nextCred],
                             HoursToTicks(EMAIL_TOKEN_EXPIRE_HOURS), clock)
            /\ nextCred' = nextCred + 1
            /\ failed' = [failed EXCEPT ![e] = 0]
            /\ calls' = Serve(w, [pc |-> "email_count", key |-> e, code |-> nextCred,
                                  pre |-> Pre(e)])
            /\ UNCHANGED last
    /\ UNCHANGED << service, clock, smsVars, email_rate_limit_storage, self_otp_storage,
                    dbVars, wins, compared, window >>

\* _increment_rate_limit: the counter is read
EmailSendCount(w) ==
    LET call == calls[w]
        current == IF HasData(email_rate_limit_storage, call.key, clock)
                   THEN GetData(email_rate_limit_storage, call.key) ELSE [count |-> 0]
    IN  /\ Serving(w, "email_count")
        /\ calls' = Serve(w, [pc |-> "email_counted", key |-> call.key,
                              code |-> call.code, pre |-> call.pre,
                              count |-> current.count + 1])
        /\ UNCHANGED << service, clock, smsVars, emailVars, self_otp_storage, dbVars,
                        budget, nextCred, failed, wins, compared, window, last >>

\* _increment_rate_limit: the counter is written; send_verification_email
\* returns success
EmailSendFinish(w) ==
    LET call == calls[w]
    IN  /\ Serving(w, "email_counted")
        /\ email_rate_limit_storage' =
               StoreData(email_rate_limit_storage, call.key, [count |-> call.count],
                         SecondsToTicks(RATE_LIMIT_EXPIRE_SECONDS), clock)
        /\ window' = [window EXCEPT ![call.key] = RecordIssuance(@, clock)]
        /\ last' = Returned("send_verification_email", call.code, "SUCCESS", call.pre)
        /\ calls' = Serve(w, Idle)
        /\ UNCHANGED << service, clock, smsVars, email_storage, self_otp_storage, dbVars,
                        budget, nextCred, failed, wins, compared >>

BurstServices == {"sms", "email"}

InitBurst ==
    /\ service \in BurstServices
    /\ budget = MaxWindowIssue
    /\ InitStores

NextBurst ==
    \/ \E w \in Workers, p \in Phones, c \in Codes : SmsSendBegin(w, p, c)
    \/ \E w \in Workers : SmsSendCount(w)
    \/ \E w \in Workers : SmsSendFinish(w)
    \/ \E w \in Workers, e \in Emails : EmailSendBegin(w, e)
    \/ \E w \in Workers : EmailSendCount(w)
    \/ \E w \in Workers : EmailSendFinish(w)

SpecBurst == InitBurst /\ [][NextBurst]_vars

----------------------------------------------------------------------------
(* send_otp and verify_otp calls for a phone number, one at a time, inside  *)
(* the hour that follows a first send_otp whose SMS was delivered: the      *)
(* rate-limit counter that call created is live throughout.                *)

InitCompare ==
    /\ service = "sms"
    /\ budget = MaxWindowIssue
    /\ InitStores

NextCompare ==
    \/ \E p \in Phones, c \in Codes : nextCred = 1 /\ SmsSendOtp(p, c, TRUE)
    \/ \E p \in Phones, c \in Codes, d \in BOOLEAN : nextCred > 1 /\ SmsSendOtp(p, c, d)
    \/ \E p \in Phones, c \in Codes : SmsVerifyOtp(p, c)

SpecCompare == InitCompare /\ [][NextCompare]_vars

----------------------------------------------------------------------------
(* Properties of the calls made one at a time (Spec, SpecIssue) *)

C4_WrongCodeCounted ==
    [][\A e \in Emails, c \in Codes, i \in 0..(nextCred - 1) :
          VerifyPasswordResetOtp(e, c, i) =>
              \A j \in DOMAIN otp_verifications :
                  (otp_verifications[j].email = e /\ IsValidOtp(otp_verifications[j], clock))
                  => /\ OtpRowsFor(otp_verifications, e, c) = {}
                        => /\ j \in DOMAIN otp_verifications'
                           /\ otp_verifications'[j].attempts =
                                  otp_verifications[j].attempts + 1
                     /\ otp_verifications[j].attempts >= RESET_OTP_MAX_ATTEMPTS
                        => last'.res # "SUCCESS"]_vars

\* C7: a reset-token row or the reset-OTP rows of an address that are not
\* consumed and past expires_at make reset_password and
\* verify_password_reset_otp return the expired outcome, whatever the code
\* presented.
C7_ExpiryDominates ==
    (last.op \in {"reset_password", "verify_password_reset_otp"} /\ "expired" \in last.pre)
    => last.res \in {"TOKEN_EXPIRED", "OTP_EXPIRED"}

\* C8: a send_otp or send_verification_email call made when three
\* issuances to the subject have succeeded in the window that is running
\* returns RATE_LIMIT_EXCEEDED.
C8_WindowFullRefused ==
    (last.op \in {"sms_send_otp", "send_verification_email"} /\ "full" \in last.pre)
    => last.res = "RATE_LIMIT_EXCEEDED"

\* the fourth send_otp of a window was refused
C8_Witness ==
    /\ last.op = "sms_send_otp"
    /\ "full" \in last.pre
    /\ last.res = "RATE_LIMIT_EXCEEDED"
    /\ window["p1"].issued = RATE_LIMIT_MAX

\* C9: the window is fixed: a send_otp or send_verification_email call made
\* once the window of three issuances has reached its boundary (its start
\* plus one hour) is not refused by the rate limit.
C9_FixedWindow ==
    (last.op \in {"sms_send_otp", "send_verification_email"} /\ "rolled" \in last.pre)
    => last.res # "RATE_LIMIT_EXCEEDED"

\* C10: a send_password_reset_otp or send_reset_email call made when three
\* issuances to the address have succeeded in the window that is running
\* returns the rate-limit outcome and creates no row.
C10_ResetIssuanceLimited ==
    (last.op \in {"send_password_reset_otp", "send_reset_email"} /\ "full" \in last.pre)
    => (last.res = "RATE_LIMIT_EXCEEDED" /\ last.code = 0)

\* C30: a send_otp or send_verification_email call that returns
\* RATE_LIMIT_EXCEEDED changes nothing: the stored OTPs and tokens, with
\* their codes, attempts and expiries, and the rate-limit counters, with
\* their counts and expiries, are after the call what they were before it,
\* and no credential is issued.
C30_RefusedIssuanceInert ==
    [][(/\ last' # last
        /\ last'.op \in {"sms_send_otp", "send_verification_email"}
        /\ last'.res = "RATE_LIMIT_EXCEEDED")
       => UNCHANGED << smsVars, emailVars, clock, budget, nextCred >>]_vars

\* a send_otp call was refused while the OTP of an earlier call was stored
\* and could still be verified
C30_Witness ==
    /\ last.op = "sms_send_otp"
    /\ last.res = "RATE_LIMIT_EXCEEDED"
    /\ HasData(sms_rate_limit_storage, "p1", clock)
    /\ GetData(sms_rate_limit_storage, "p1").count = RATE_LIMIT_MAX
    /\ HasData(otp_storage, "p1", clock)
    /\ SmsVerifyResult(TRUE, GetData(otp_storage, "p1"),
                       GetData(otp_storage, "p1").code, clock) = "SUCCESS"

----------------------------------------------------------------------------
(* Properties of the calls served at the same time (SpecConc) *)

AllIdle == \A w \in Workers : Serving(w, "idle")

\* C1: whatever the interleaving of the reset_password calls that present
\* one valid token, one of them returns success and sets the password; the
\* others are refused.
C1_OneResetPerToken ==
    service = "reset" => \A t \in Creds : wins[t] <= 1

\* C2: whatever the interleaving of the verify calls that present the
\* correct secret of one credential (verify_otp, verify_email_token,
\* verify_password_reset_otp), one of them returns success.
C2_OneSuccessPerCredential ==
    service \in {"sms", "email", "reset_otp"} => \A c \in Creds : wins[c] <= 1

\* C5: a verify_otp call for a phone number that starts after
\* max_attempts verify_otp calls for it have failed, none having succeeded
\* and no OTP having been issued to it meanwhile, does not succeed (the
\* histories in which an OTP is verified twice are those of C2 and are
\* left aside).
C5_ExhaustedRefused ==
    (/\ last.op = "sms_verify_otp"
     /\ "exhausted" \in last.pre
     /\ \A c \in Creds : wins[c] <= 1)
    => last.res # "SUCCESS"

\* C6: whatever the interleaving of the verify_otp calls, no more than
\* max_attempts comparisons are made against one OTP, and when no call is
\* being served the attempts stored with an OTP are the comparisons against
\* it that failed.
C6_AttemptsAtomic ==
    /\ \A c \in Creds : compared[c] <= MAX_OTP_ATTEMPTS
    /\ AllIdle =>
           \A p \in DOMAIN otp_storage :
               otp_storage[p].data.attempts =
                   compared[otp_storage[p].data.cred] - wins[otp_storage[p].data.cred]

----------------------------------------------------------------------------
(* Further properties of the calls made one at a time (Spec) *)

\* C11: send_reset_email answers alike whether the address has an account
\* (active or inactive) or none: apart from a failed delivery, every call
\* reports success.
C11_NoAccountEnumeration ==
    (last.op = "send_reset_email" /\ last.res # "EMAIL_SEND_FAILED")
    => last.res = "SUCCESS"

\* C12: an issuance for a subject that holds a credential still active
\* (stored, not expired, attempts remaining) leaves that credential stored
\* with its code, so that both codes can be verified: send_otp of
\* SMSService, send_otp and resend_otp of OTPService,
\* send_password_reset_otp.
C12_ResendKeepsPrior ==
    [][/\ \A p \in Phones, c \in Codes, d \in BOOLEAN :
             (/\ SmsSendOtp(p, c, d)
              /\ nextCred' # nextCred
              /\ HasData(otp_storage, p, clock))
             => \E k \in DOMAIN otp_storage' :
                    otp_storage'[k].data.code = GetData(otp_storage, p).code
       /\ \A p \in Phones, u \in Purposes, c \in Codes :
             (/\ OtpSendOtp(p, u, c) \/ OtpResendOtp(p, u, c)
              /\ p \in DOMAIN self_otp_storage
              /\ ~(clock > self_otp_storage[p].expires_at)
              /\ self_otp_storage[p].attempts < self_otp_storage[p].max_attempts)
             => \E k \in DOMAIN self_otp_storage' :
                    /\ self_otp_storage'[k].code = self_otp_storage[p].code
                    /\ self_otp_storage'[k].purpose = self_otp_storage[p].purpose
       /\ \A e \in Emails, c \in Codes, d \in BOOLEAN :
             SendPasswordResetOtp(e, c, d)
             => \A i \in DOMAIN otp_verifications :
                    IsValidOtp(otp_verifications[i], clock)
                    => /\ i \in DOMAIN otp_verifications'
                       /\ otp_verifications'[i] = otp_verifications[i]]_vars

\* C14: an issuance whose delivery raises returns the delivery failure
\* (success = false) and leaves the credential it has stored in the store,
\* unconsumed and valid: send_verification_email,
\* send_password_reset_otp, send_otp of SMSService, send_reset_email.
C14_DeliveryFailureKeepsCredential ==
    [][/\ \A e \in Emails :
             (EmailSendVerification(e, FALSE) /\ nextCred' # nextCred)
             => /\ last'.res = "EMAIL_SEND_FAILED"
                /\ HasData(email_storage', nextCred, clock')
                /\ EmailVerifyResult(TRUE, GetData(email_storage', nextCred), clock')
                       = "SUCCESS"
       /\ \A e \in Emails, c \in Codes :
             SendPasswordResetOtp(e, c, FALSE)
             => /\ last'.res = "OTP_SEND_FAILED"
                /\ nextCred \in OtpRowsFor(otp_verifications', e, c)
                /\ ResetOtpResult(TRUE, otp_verifications'[nextCred], c, clock') = "SUCCESS"
       /\ \A p \in Phones, c \in Codes :
             (SmsSendOtp(p, c, FALSE) /\ nextCred' # nextCred)
             => /\ last'.res = "SMS_SEND_FAILED"
                /\ HasData(otp_storage', p, clock')
                /\ SmsVerifyResult(TRUE, GetData(otp_storage', p), c, clock') = "SUCCESS"
       /\ \A e \in Emails :
             (SendResetEmail(e, FALSE) /\ nextCred' # nextCred)
             => /\ last'.res = "EMAIL_SEND_FAILED"
                /\ nextCred \in DOMAIN password_reset_tokens'
                /\ ResetPasswordResult(TRUE, password_reset_tokens'[nextCred], clock')
                       = "SUCCESS"]_vars

\* a password-reset OTP whose delivery failed is verified: no issuance to
\* the address has been delivered
C14_Witness ==
    /\ last.op = "verify_password_reset_otp"
    /\ last.res = "SUCCESS"
    /\ window["e1"].issued = 0
    /\ \E i \in DOMAIN otp_verifications : otp_verifications[i].is_verified

\* C15: a verification that finds the credential store unavailable does not
\* answer with a business outcome (not found, invalid secret, expired,
\* consumed, exhausted, success): the failure is reported as an error of
\* its own; shown for a credential that is in the store.
C15_StoreFailureDistinct ==
    {"store_down", "stored"} \subseteq last.pre
    => last.res \notin {"INVALID_TOKEN", "INVALID_OTP", "TOKEN_NOT_FOUND",
                        "OTP_NOT_FOUND", "TOKEN_USED", "OTP_USED", "TOKEN_EXPIRED",
                        "OTP_EXPIRED", "MAX_ATTEMPTS_EXCEEDED", "SUCCESS"}

\* C16: a verification for a phone number or token that has no stored
\* credential returns the not-found answer as a value (OTP_NOT_FOUND,
\* TOKEN_NOT_FOUND, INVALID_TOKEN) and writes nothing: the credential
\* stores, the rate-limit counters and the users stay as they were.
C16_NotFoundIsSilent ==
    [][/\ \A p \in Phones, c \in Codes :
             (SmsVerifyOtp(p, c) /\ ~HasData(otp_storage, p, clock))
             => /\ last'.res = "OTP_NOT_FOUND"
                /\ UNCHANGED << smsVars, emailVars, self_otp_storage, dbVars >>
       /\ \A t \in Tokens :
             (EmailVerifyToken(t) /\ ~HasData(email_storage, t, clock))
             => /\ last'.res = "TOKEN_NOT_FOUND"
                /\ UNCHANGED << smsVars, emailVars, self_otp_storage, dbVars >>
       /\ \A t \in Tokens, pw \in Passwords :
             (ResetPassword(t, pw) /\ t \notin DOMAIN password_reset_tokens)
             => /\ last'.res = "INVALID_TOKEN"
                /\ UNCHANGED << smsVars, emailVars, self_otp_storage, dbVars >>]_vars

\* a token that was never issued is presented to verify_email_token while
\* another token is stored
C16_Witness ==
    /\ last.op = "verify_email_token"
    /\ last.res = "TOKEN_NOT_FOUND"
    /\ last.code \notin DOMAIN email_storage
    /\ email_storage # << >>

\* C18: inside the lifetime of a phone OTP, the third failed verification
\* since it was issued returns MAX_ATTEMPTS_EXCEEDED, and so does every
\* verification after it, whatever code it presents (SMSService.verify_otp
\* and OTPService.verify_otp, three attempts, five minutes); stated for
\* the histories without a successful verification.
C18_ThirdFailureExhausts ==
    (/\ last.op \in {"sms_verify_otp", "otp_verify_otp"}
     /\ clock = 0
     /\ nextCred > 1
     /\ \A c \in Creds : wins[c] = 0
     /\ failed["p1"] >= MAX_OTP_ATTEMPTS \/ "exhausted" \in last.pre)
    => last.res = "MAX_ATTEMPTS_EXCEEDED"

\* C19: a verification that follows a successful one and presents the same
\* secret before the credential's expires_at returns the consumed outcome
\* (OTP_USED, TOKEN_USED, ALREADY_VERIFIED): SMSService.verify_otp,
\* verify_email_token, verify_password_reset_otp.
C19_SecondVerifyConsumed ==
    [][/\ \A p \in Phones, c \in Codes :
             (/\ SmsVerifyOtp(p, c)
              /\ last = Returned("sms_verify_otp", c, "SUCCESS", last.pre)
              /\ clock < MinutesToTicks(OTP_EXPIRE_MINUTES))
             => last'.res \in {"OTP_USED", "TOKEN_USED", "ALREADY_VERIFIED"}
       /\ \A t \in Tokens :
             (/\ EmailVerifyToken(t)
              /\ last = Returned("verify_email_token", t, "SUCCESS", last.pre)
              /\ clock < HoursToTicks(EMAIL_TOKEN_EXPIRE_HOURS))
             => last'.res \in {"OTP_USED", "TOKEN_USED", "ALREADY_VERIFIED"}
       /\ \A e \in Emails, c \in Codes, i \in 1..(nextCred - 1) :
             (/\ VerifyPasswordResetOtp(e, c, i)
              /\ last = Returned("verify_password_reset_otp", c, "SUCCESS", last.pre)
              /\ otp_verifications[i].is_verified
              /\ ~IsExpired(otp_verifications[i], clock))
             => last'.res \in {"OTP_USED", "TOKEN_USED", "ALREADY_VERIFIED"}]_vars

\* C20: a verification that presents a wrong code for an active credential
\* which has failed fewer than max_attempts - 1 times returns INVALID_OTP
\* with a count of remaining attempts equal to max_attempts less the
\* attempts stored after the call, and leaves the credential active: the
\* right code would still be accepted (SMSService.verify_otp,
\* OTPService.verify_otp, verify_password_reset_otp).
C20_RemainingReported ==
    [][/\ \A p \in Phones, c \in Codes :
             (/\ SmsVerifyOtp(p, c)
              /\ HasData(otp_storage, p, clock)
              /\ GetData(otp_storage, p).code # c
              /\ GetData(otp_storage, p).attempts + 1 < MAX_OTP_ATTEMPTS
              /\ ~(clock > GetData(otp_storage, p).expires_at))
             => LET data == GetData(otp_storage, p)
                    resp == SmsVerifyResponse(TRUE, data, c, clock)
                IN  /\ last'.res = "INVALID_OTP"
                    /\ HasData(otp_storage', p, clock)
                    /\ SmsVerifyResult(TRUE, GetData(otp_storage', p), data.code, clock)
                           = "SUCCESS"
                    /\ "remaining_attempts" \in DOMAIN resp
                    /\ resp.remaining_attempts =
                           MAX_OTP_ATTEMPTS - GetData(otp_storage', p).attempts
       /\ \A p \in Phones, c \in Codes, u \in Purposes :
             (/\ OtpVerifyOtp(p, c, u)
              /\ p \in DOMAIN self_otp_storage
              /\ self_otp_storage[p].code # c
              /\ self_otp_storage[p].attempts + 1 < SELF_OTP_MAX_ATTEMPTS
              /\ ~(clock > self_otp_storage[p].expires_at))
             => LET stored == self_otp_storage[p]
                    resp == OtpVerifyResponse(TRUE, stored, c, u, clock)
                IN  /\ last'.res = "INVALID_OTP"
                    /\ p \in DOMAIN self_otp_storage'
                    /\ OtpVerifyResult(TRUE, self_otp_storage'[p], stored.code,
                                       stored.purpose, clock) = "SUCCESS"
                    /\ "attempts_remaining" \in DOMAIN resp
                    /\ resp.attempts_remaining =
                           SELF_OTP_MAX_ATTEMPTS - self_otp_storage'[p].attempts
       /\ \A e \in Emails, c \in Codes, i \in 0..(nextCred - 1), j \in 1..(nextCred - 1) :
             (/\ VerifyPasswordResetOtp(e, c, i)
              /\ j \in DOMAIN otp_verifications
              /\ otp_verifications[j].email = e
              /\ otp_verifications[j].otp_code # c
              /\ IsValidOtp(otp_verifications[j], clock)
              /\ otp_verifications[j].attempts + 1 < RESET_OTP_MAX_ATTEMPTS
              /\ OtpRowsFor(otp_verifications, e, c) = {})
             => LET resp == ResetOtpResponse(i # 0, [email |-> e], c, clock)
                IN  /\ last'.res = "INVALID_OTP"
                    /\ j \in DOMAIN otp_verifications'
                    /\ ResetOtpResult(TRUE, otp_verifications'[j],
                                      otp_verifications[j].otp_code, clock) = "SUCCESS"
                    /\ "attempts_remaining" \in DOMAIN resp
                    /\ resp.attempts_remaining =
                           RESET_OTP_MAX_ATTEMPTS - otp_verifications'[j].attempts]_vars

\* C21: a reset_password call that succeeds leaves the user no other reset
\* token that a later reset_password call would accept.
C21_SiblingsPurged ==
    [][\A t \in Tokens, pw \in Passwords :
          (ResetPassword(t, pw) /\ last'.res = "SUCCESS")
          => \A t2 \in DOMAIN password_reset_tokens' \ {t} :
                password_reset_tokens'[t2].user_id = password_reset_tokens[t].user_id
                => ResetPasswordResult(TRUE, password_reset_tokens'[t2], clock')
                       # "SUCCESS"]_vars

\* C22: every send_otp and send_verification_email call that stores a
\* credential adds one to the rate-limit counter of the phone number or
\* address, whether the delivery that follows succeeds or fails.
C22_StoredIsCounted ==
    [][/\ \A p \in Phones, c \in Codes, d \in BOOLEAN :
             (SmsSendOtp(p, c, d) /\ nextCred' # nextCred)
             => sms_rate_limit_storage' =
                    IncrementRateLimit(sms_rate_limit_storage, p, clock)
       /\ \A e \in Emails, d \in BOOLEAN :
             (EmailSendVerification(e, d) /\ nextCred' # nextCred)
             => email_rate_limit_storage' =
                    IncrementRateLimit(email_rate_limit_storage, e, clock)]_vars

\* C26: a verify_otp or verify_email_token call succeeds only while the
\* time is not past the expires_at recorded in the entry at issuance,
\* whatever the deadline the entry was last stored with.
C26_NoSuccessPastExpiry ==
    [][/\ \A p \in Phones, c \in Codes :
             ((SmsVerifyOtp(p, c) \/ SmsVerifyOtpAtExpiry(p, c)) /\ last'.res = "SUCCESS")
             => /\ p \in DOMAIN otp_storage
                /\ ~(clock' > GetData(otp_storage, p).expires_at)
       /\ \A t \in Tokens :
             (EmailVerifyToken(t) /\ last'.res = "SUCCESS")
             => /\ t \in DOMAIN email_storage
                /\ ~(clock' > GetData(email_storage, t).expires_at)]_vars

\* an OTP that a failed attempt at its expires_at has stored for another
\* hour is presented after expires_at and refused as expired
C26_Witness ==
    /\ last.op = "sms_verify_otp"
    /\ last.res = "OTP_EXPIRED"
    /\ clock > MinutesToTicks(OTP_EXPIRE_MINUTES)

\* C27: OTPService keeps the OTPs of different purposes of one phone number
\* apart: send_otp for one purpose leaves an active OTP of another purpose
\* verifiable, and verify_otp for one purpose leaves the OTP of another
\* purpose as it was.
C27_PurposesApart ==
    [][\A p \in Phones, c \in Codes, u \in Purposes :
          (/\ p \in DOMAIN self_otp_storage
           /\ self_otp_storage[p].purpose # u
           /\ OtpVerifyResult(TRUE, self_otp_storage[p], self_otp_storage[p].code,
                              self_otp_storage[p].purpose, clock) = "SUCCESS")
          => /\ OtpSendOtp(p, u, c)
                => /\ p \in DOMAIN self_otp_storage'
                   /\ OtpVerifyResult(TRUE, self_otp_storage'[p], self_otp_storage[p].code,
                                      self_otp_storage[p].purpose, clock) = "SUCCESS"
             /\ OtpVerifyOtp(p, c, u) => self_otp_storage' = self_otp_storage]_vars

\* C28: a verification of a consumed credential returns the consumed
\* outcome and changes nothing, whatever secret it presents:
\* verify_email_token for a token stored as verified, reset_password for a
\* token row that is used, verify_password_reset_otp for an address whose
\* OTP rows are all verified.
C28_ConsumedIsIdempotent ==
    [][/\ \A t \in Tokens :
             (/\ EmailVerifyToken(t)
              /\ HasData(email_storage, t, clock)
              /\ GetData(email_storage, t).verified)
             => /\ last'.res = "ALREADY_VERIFIED"
                /\ email_storage' = email_storage
       /\ \A t \in Tokens, pw \in Passwords :
             (/\ ResetPassword(t, pw)
              /\ t \in DOMAIN password_reset_tokens
              /\ password_reset_tokens[t].is_used)
             => /\ last'.res = "TOKEN_USED"
                /\ UNCHANGED << password_reset_tokens, users >>
       /\ \A e \in Emails, c \in Codes, i \in 0..(nextCred - 1) :
             (/\ VerifyPasswordResetOtp(e, c, i)
              /\ \E j \in DOMAIN otp_verifications : otp_verifications[j].email = e
              /\ \A j \in DOMAIN otp_verifications :
                    otp_verifications[j].email = e => otp_verifications[j].is_verified)
             => /\ last'.res = "OTP_USED"
                /\ otp_verifications' = otp_verifications]_vars

----------------------------------------------------------------------------
(* Further properties of the calls served at the same time (SpecConc) *)

\* C13: whatever the interleaving of the verify_otp and send_otp calls, an
\* OTP that has been consumed is not stored again: the entry a phone number
\* holds is that of an OTP never verified.
C13_TerminalStaysTerminal ==
    \A p \in DOMAIN otp_storage : wins[otp_storage[p].data.cred] = 0

\* C24: when send_otp has just returned success, the write of a failing
\* verify_otp call that read the entry of an earlier OTP of the phone number
\* leaves the stored entry as send_otp wrote it: the new code with
\* attempts = 0.
C24_IssuedEntryKept ==
    [][\A w \in Workers :
          (/\ SmsVerifyFinish(w)
           /\ calls[w].res # "SUCCESS"
           /\ HasData(otp_storage, calls[w].key, clock)
           /\ GetData(otp_storage, calls[w].key).cred # calls[w].data.cred
           /\ last = Returned("sms_send_otp", GetData(otp_storage, calls[w].key).code,
                              "SUCCESS", last.pre))
          => /\ HasData(otp_storage', calls[w].key, clock)
             /\ GetData(otp_storage', calls[w].key) = GetData(otp_storage, calls[w].key)
             /\ GetData(otp_storage', calls[w].key).attempts = 0]_vars

----------------------------------------------------------------------------
(* Properties of the cleanup taken statement by statement (SpecSweep) *)

\* C17: a cleanup deletes no row that is still active, and the count it
\* returns is the number of rows it deleted, whatever issuances,
\* verifications and other cleanups run at the same time; stated for the
\* histories in which no credential was accepted twice.
C17_CleanupExact ==
    (\A c \in Creds : wins[c] <= 1)
    => \A w \in Workers :
          calls[w].pc \in {"otp_return", "token_return"}
          => ~calls[w].active /\ calls[w].count = calls[w].deleted

----------------------------------------------------------------------------
(* Properties of reset_password with mark_as_used failing (SpecFault) *)

\* C23: when reset_password has returned success the token it was given is
\* marked used, also when mark_as_used has failed: no call ends with the
\* password changed, success returned and the token still valid.
C23_SuccessMarksUsed ==
    (last.op = "reset_password" /\ last.res = "SUCCESS")
    => \/ last.code \notin DOMAIN password_reset_tokens
       \/ password_reset_tokens[last.code].is_used

----------------------------------------------------------------------------
(* Properties of the issuances served at the same time (SpecBurst) *)

\* C25: whatever the interleaving of the send_otp or send_verification_email
\* calls for one phone number or address, when they have all returned at
\* most three of them have succeeded while the rate-limit counter is live,
\* and the count of the counter is the number of those that succeeded.
C25_CheckAndCountAtomic ==
    AllIdle
    => /\ \A p \in Phones :
             /\ window[p].issued <= RATE_LIMIT_MAX
             /\ window[p].issued > 0
                => /\ HasData(sms_rate_limit_storage, p, clock)
                   /\ GetData(sms_rate_limit_storage, p).count = window[p].issued
       /\ \A e \in Emails :
             /\ window[e].issued <= RATE_LIMIT_MAX
             /\ window[e].issued > 0
                => /\ HasData(email_rate_limit_storage, e, clock)
                   /\ GetData(email_rate_limit_storage, e).count = window[e].issued

----------------------------------------------------------------------------
(* Properties of the calls inside one live rate-limit counter (SpecCompare) *)

RECURSIVE TotalCompared(_)
TotalCompared(creds) ==
    IF creds = {} THEN 0
    ELSE LET c == CHOOSE x \in creds : TRUE
         IN  compared[c] + TotalCompared(creds \ {c})

\* C29: while the rate-limit counter of a phone number is live, verify_otp
\* compares a presented code with the OTPs issued to the number at most
\* 3 x MAX_OTP_ATTEMPTS times in all.
C29_ComparisonsBounded ==
    HasData(sms_rate_limit_storage, "p1", clock)
    => TotalCompared(Creds) <= RATE_LIMIT_MAX * MAX_OTP_ATTEMPTS

====
